---- MODULE Spec2Model ----
(***************************************************************************)
(* Remote command execution and retry subsystem of acloud                  *)
(* (src/internal/lib/ssh.py).                                              *)
(*                                                                         *)
(* The main thread runs ShellCmdWithRetry -> utils.RetryExceptionType ->   *)
(* _SshLogOutput.  Every attempt spawns one child process (Popen) and,     *)
(* when a timeout is given, one threading.Timer whose function is          *)
(* process.kill.  Child processes and timer threads run concurrently with  *)
(* the main thread; each of their steps is an action of its own.           *)
(*                                                                         *)
(* The source is Python 2 (readline() is compared with the str "" on line  *)
(* 92), so Popen.kill is os.kill(self.pid, SIGKILL) with no check of       *)
(* returncode, and threading.Timer.run is                                  *)
(*     finished.wait(interval); if not finished.is_set(): function()       *)
(* while Timer.cancel only sets finished.                                  *)
(*                                                                         *)
(* utils.RetryExceptionType and utils.DEFAULT_RETRY_BACKOFF_FACTOR are not *)
(* part of the available source; the retry engine is modelled from         *)
(* spec.md section 4.5 and the backoff factor is left open.                *)
(*                                                                         *)
(* Optional values (None in the source) are sets: {} is None, {v} is v.    *)
(***************************************************************************)
EXTENDS Integers, Sequences, FiniteSets, TLC

VARIABLES
    pc,             \* position of the main thread
    op,             \* the entry point running: "none", "ShellCmd", "WaitForSsh", "Generic"
    args,           \* arguments of the running call: cmd, timeout, show_output
    retry,          \* RetryContext: max_retries, sleep_multiplier, backoff, attempt_count
    sleeps,         \* the sleeps the retry engine has taken, in order
    raised,         \* the exception the functor raised for the engine (or NoError)
    result,         \* what the caller of the entry point receives
    procs,          \* every process spawned so far, one per attempt
    timers,         \* the threading.Timer of each process (st "none" when not created)
    pipe,           \* lines written by the current process and not yet read
    nwritten,       \* number of lines the current process has written
    output,         \* the local variable output of _SshLogOutput: <<>> is ""
    console,        \* lines of the current attempt printed to the screen
    debuglog,       \* lines of the current attempt sent to logger.debug
    outcomes,       \* per finished attempt: the returncode seen and the error raised
    wait,           \* WaitForSsh: max_retry, calls made, value of the last _SshCall
    ctor,           \* the arguments the Ssh object was constructed with
    ssh,            \* the Ssh object: _ip, _gce_user, _ssh_private_key_path, _extra_args_ssh_tunnel
    entry,          \* the method called on it: name, GetBaseCmd calls made, last GetBaseCmd value
    create          \* create.Run: position, args.autoconnect, what the checks met, the creator class

vars == <<pc, op, args, retry, sleeps, raised, result, procs, timers, pipe,
          nwritten, output, console, debuglog, outcomes, wait, ctor, ssh,
          entry, create>>

----------------------------------------------------------------------------
(* Bounds of the model *)

MaxLines == 2
MaxRetries == 2
MaxProbes == 2

(* Program constants *)

SSH_CMD_MAX_RETRY == 4
SSH_CMD_RETRY_SLEEP == 3
SIGKILL == 9

ExitCodes == {0, 1, 2, 255}
\* Command lines are sequences of the words that " ".join and % put
\* together; a command line is built by concatenating them.
Cmds == {<<"ssh", "uptime">>, <<"ssh", "reboot">>}
Timeouts == {{}, {0}, {20}}

\* max_retry values WaitForSsh is called with; the default is the last one.
WaitMaxRetries == (0..MaxProbes) \cup {SSH_CMD_MAX_RETRY}

\* utils.DEFAULT_RETRY_BACKOFF_FACTOR: its value is not in the available source.
DEFAULT_RETRY_BACKOFF_FACTORS == {1, 2}

\* Parameters the generic engine is exercised with.
GenericSleepMultipliers == {1, 3}
GenericBackoffFactors == {1, 2}

----------------------------------------------------------------------------
(* Helpers *)

RECURSIVE Pow(_, _)
Pow(b, e) == IF e = 0 THEN 1 ELSE b * Pow(b, e - 1)

\* A test for None only: 0 counts as a timeout.
TruthyUnlessNone(t) == t # {}

\* Python truthiness of an optional integer: None and 0 are false.
Truthy(t) == t # {} /\ t # {0}

NoError == [type |-> "none", code |-> {}]
NoResult == [kind |-> "none", code |-> {}, exhausted |-> FALSE, attempts |-> 0]
NoTimer == [st |-> "none", finished |-> FALSE]

cur == Len(procs)

----------------------------------------------------------------------------
(* Failure classification: the tail of _SshLogOutput *)

ClassifyNo255(rc) ==
    IF rc # {0} THEN [type |-> "CalledProcessError", code |-> rc]
    ELSE NoError

Classify(rc) ==
    IF rc = {255} THEN [type |-> "DeviceConnectionError", code |-> {}]
    ELSE IF rc # {0} THEN [type |-> "CalledProcessError", code |-> rc]
    ELSE NoError

\* exception_types given to utils.RetryExceptionType by ShellCmdWithRetry
ShellCmdRetryAnyError == {"DeviceConnectionError", "CalledProcessError"}

ShellCmdExceptionTypes == {"DeviceConnectionError"}

ShellCmdMaxRetriesOffByOne == SSH_CMD_MAX_RETRY - 1

ShellCmdMaxRetries == SSH_CMD_MAX_RETRY

ShellCmdSleepMultiplier == SSH_CMD_RETRY_SLEEP

\* retryableClasses of the running call
RetryableTypes ==
    IF op = "ShellCmd" THEN ShellCmdExceptionTypes ELSE {"GenericRetryable"}

----------------------------------------------------------------------------
(* The Ssh object and the command lines it builds *)

\* execute_bin values (GetBaseCmd docstring: "e.g. ssh or scp"); the last
\* one is a kind GetBaseCmd does not know.
SSH_BIN == "ssh"
SCP_BIN == "scp"
ExecuteBins == {SSH_BIN, SCP_BIN, "rsync"}

\* Python truthiness of an optional string: None and "" are false.
StrTruthy(o) == o # {} /\ o # {""}

\* "%s" % o
Format(o) == IF o = {} THEN "None" ELSE CHOOSE v \in o : TRUE

\* a or b
Or(a, b) == IF StrTruthy(a) THEN a ELSE b

\* IP.__init__
IPInit(external, internal, ip) ==
    [external |-> Or(external, ip), internal |-> Or(internal, ip)]

SshInitAlwaysExternal(ip, gce_user, ssh_private_key_path, extra_args_ssh_tunnel, report_internal_ip) ==
    [ip |-> ip.external,
     gce_user |-> gce_user,
     ssh_private_key_path |-> ssh_private_key_path,
     extra_args_ssh_tunnel |-> extra_args_ssh_tunnel]

\* Ssh.__init__
SshInit(ip, gce_user, ssh_private_key_path, extra_args_ssh_tunnel, report_internal_ip) ==
    [ip |-> IF report_internal_ip THEN ip.internal ELSE ip.external,
     gce_user |-> gce_user,
     ssh_private_key_path |-> ssh_private_key_path,
     extra_args_ssh_tunnel |-> extra_args_ssh_tunnel]

\* Arguments IP and Ssh objects are constructed with.
IPs == {IPInit({"34.1.1.1"}, {"10.0.0.2"}, {}), IPInit({}, {}, {"10.0.0.9"})}
GceUsers == {"vsoc-01"}
PrivateKeyPaths == {"~/.ssh/acloud_rsa"}
ExtraArgs == {{}, {"-o ProxyCommand=nc"}}

CtorArgs ==
    [ip : IPs, gce_user : GceUsers, ssh_private_key_path : PrivateKeyPaths,
     extra_args_ssh_tunnel : ExtraArgs, report_internal_ip : BOOLEAN]

DefaultCtor ==
    [ip |-> IPInit({"34.1.1.1"}, {"10.0.0.2"}, {}),
     gce_user |-> "vsoc-01",
     ssh_private_key_path |-> "~/.ssh/acloud_rsa",
     extra_args_ssh_tunnel |-> {},
     report_internal_ip |-> FALSE]

\* Arguments of Run, ScpPushFile and ScpPullFile.
TargetCommands == {"uptime", "reboot"}
LocalFiles == {"local.img"}
RemoteFiles == {"remote.img"}

\* distutils.spawn.find_executable for a transport binary.  The binaries
\* exist on the host (spec.md section 6: the core shells out to existing
\* transport binaries); for an unknown name the value is never used.
find_executable(execute_bin) == <<"/usr/bin/" \o execute_bin>>

\* _SSH_CMD % {"rsa_key_file": key}
SSH_CMD(rsa_key_file) ==
    <<"-i", rsa_key_file, "-q", "-o", "UserKnownHostsFile=/dev/null",
      "-o", "StrictHostKeyChecking=no">>

\* _SSH_IDENTITY % {"login_user": user, "ip_addr": ip}
SSH_IDENTITY(login_user, ip_addr) == <<"-l", login_user, Format(ip_addr)>>

\* "%s@%s:%s" % (self._gce_user, self._ip, path)
RemotePath(path) == <<ssh.gce_user, "@", Format(ssh.ip), ":", path>>

NoBase == [ok |-> FALSE, err |-> "none", cmd |-> <<>>]
NoEntry == [name |-> "none", builds |-> 0, base |-> NoBase]

\* The words GetBaseCmd collects before it looks at the kind.
base_cmd(execute_bin) ==
    find_executable(execute_bin)
        \o SSH_CMD(ssh.ssh_private_key_path)
        \o (IF StrTruthy(ssh.extra_args_ssh_tunnel)
            THEN <<Format(ssh.extra_args_ssh_tunnel)>>
            ELSE <<>>)

GetBaseCmdIdentityAlways(execute_bin) ==
    IF execute_bin \in {SSH_BIN, SCP_BIN}
    THEN [ok |-> TRUE, err |-> "none",
          cmd |-> base_cmd(execute_bin) \o SSH_IDENTITY(ssh.gce_user, ssh.ip)]
    ELSE [ok |-> FALSE, err |-> "UnknownType", cmd |-> <<>>]

\* Ssh.GetBaseCmd: the command line, or the UnknownType it raises.
GetBaseCmd(execute_bin) ==
    IF execute_bin = SSH_BIN
    THEN [ok |-> TRUE, err |-> "none",
          cmd |-> base_cmd(execute_bin) \o SSH_IDENTITY(ssh.gce_user, ssh.ip)]
    ELSE IF execute_bin = SCP_BIN
    THEN [ok |-> TRUE, err |-> "none", cmd |-> base_cmd(execute_bin)]
    ELSE [ok |-> FALSE, err |-> "UnknownType", cmd |-> <<>>]

----------------------------------------------------------------------------
(* create.py: the checks before a create and the choice of the creator   *)
(* class.  create.Run calls PreRunCheck, whose _CheckForAutoconnect is     *)
(* modelled statement by statement, and then GetAvdCreatorClass on the     *)
(* instance type and image source of the AVD spec.                         *)

\* Values of instance_type and image_source (docstring: "local or
\* remote"); the last two of each are values the function does not know.
INSTANCE_TYPE_REMOTE == "remote"
INSTANCE_TYPE_LOCAL == "local"
IMAGE_SRC_LOCAL == "local"
IMAGE_SRC_REMOTE == "remote"
InstanceTypes == {INSTANCE_TYPE_LOCAL, INSTANCE_TYPE_REMOTE, "gce", ""}
ImageSources == {IMAGE_SRC_LOCAL, IMAGE_SRC_REMOTE, "prebuilt", ""}

\* os.environ.get(constants.ENV_ANDROID_BUILD_TOP)
BuildTops == {{}, {""}, {"/src/aosp"}}

\* What subprocess.check_call of the adb build does: it returns, raises
\* CalledProcessError, or raises OSError when make_cmd cannot be run.
BuildOutcomes == {"ok", "CalledProcessError", "OSError"}

NoCreate ==
    [pc |-> "idle", entry_autoconnect |-> FALSE, autoconnect |-> FALSE,
     adb |-> FALSE, answer |-> {}, android_build_top |-> {},
     build |-> "none", disable_autoconnect |-> FALSE,
     instance_type |-> "", image_source |-> "", creator |-> {},
     error |-> "none"]

GetAvdCreatorClassByInstance(instance_type, image_source) ==
    IF instance_type = INSTANCE_TYPE_REMOTE
    THEN [creator |-> {"LocalImageRemoteInstance"}, error |-> "none"]
    ELSE IF instance_type = INSTANCE_TYPE_LOCAL
    THEN [creator |-> {"LocalImageLocalInstance"}, error |-> "none"]
    ELSE [creator |-> {}, error |-> "UnsupportedInstanceImageType"]

\* GetAvdCreatorClass: the class returned, or the error raised.
GetAvdCreatorClass(instance_type, image_source) ==
    IF instance_type = INSTANCE_TYPE_REMOTE /\ image_source = IMAGE_SRC_LOCAL
    THEN [creator |-> {"LocalImageRemoteInstance"}, error |-> "none"]
    ELSE IF instance_type = INSTANCE_TYPE_LOCAL
            /\ image_source = IMAGE_SRC_LOCAL
    THEN [creator |-> {"LocalImageLocalInstance"}, error |-> "none"]
    ELSE IF instance_type = INSTANCE_TYPE_REMOTE
            /\ image_source = IMAGE_SRC_REMOTE
    THEN [creator |-> {"RemoteImageRemoteInstance"}, error |-> "none"]
    ELSE IF instance_type = INSTANCE_TYPE_LOCAL
            /\ image_source = IMAGE_SRC_REMOTE
    THEN [creator |-> {"RemoteImageLocalInstance"}, error |-> "none"]
    ELSE [creator |-> {}, error |-> "UnsupportedInstanceImageType"]

----------------------------------------------------------------------------
\* The state once the Ssh object has been constructed from c.
Constructed(c) ==
    /\ pc = "idle"
    /\ op = "none"
    /\ args = [cmd |-> <<>>, timeout |-> {}, show_output |-> FALSE]
    /\ retry = [max_retries |-> 0, sleep_multiplier |-> 0, backoff |-> 1,
                attempt_count |-> 0]
    /\ sleeps = <<>>
    /\ raised = NoError
    /\ result = NoResult
    /\ procs = <<>>
    /\ timers = <<>>
    /\ pipe = <<>>
    /\ nwritten = 0
    /\ output = <<>>
    /\ console = <<>>
    /\ debuglog = <<>>
    /\ outcomes = <<>>
    /\ wait = [max_retry |-> 0, calls |-> 0, ret |-> {}]
    /\ ctor = c
    /\ ssh = SshInit(c.ip, c.gce_user, c.ssh_private_key_path,
                     c.extra_args_ssh_tunnel, c.report_internal_ip)
    /\ entry = NoEntry
    /\ create = NoCreate

Init == Constructed(DefaultCtor)

InitSession == \E c \in CtorArgs : Constructed(c)

----------------------------------------------------------------------------
(* ShellCmdWithRetry: hands _SshLogOutput to the retry engine *)

ShellCmdWithRetry(cmd, timeout, show_output, factor) ==
    /\ pc = "idle"
    /\ op' = "ShellCmd"
    /\ args' = [cmd |-> cmd, timeout |-> timeout, show_output |-> show_output]
    /\ retry' = [max_retries |-> ShellCmdMaxRetries,
                 sleep_multiplier |-> ShellCmdSleepMultiplier,
                 backoff |-> factor,
                 attempt_count |-> 0]
    /\ pc' = "try"
    /\ UNCHANGED <<sleeps, raised, result, procs, timers, pipe, nwritten,
                   output, console, debuglog, outcomes, wait,
                   ctor, ssh, create>>

\* ShellCmdWithRetry called with a command line of the caller's own.
ShellCmd(cmd, timeout, show_output, factor) ==
    /\ ShellCmdWithRetry(cmd, timeout, show_output, factor)
    /\ entry' = [name |-> "ShellCmdWithRetry", builds |-> 0, base |-> NoBase]

----------------------------------------------------------------------------
(* The methods of Ssh that run a command with retry *)

\* Ssh.Run: the command line is put together once, then handed over.
Run(target_command, timeout, show_output, factor) ==
    LET base == GetBaseCmd(SSH_BIN) IN
    /\ ShellCmdWithRetry(base.cmd \o <<target_command>>, timeout,
                         show_output, factor)
    /\ entry' = [name |-> "Run", builds |-> 1, base |-> base]

ScpPushFileReversed(src_file, dst_file, factor) ==
    LET base == GetBaseCmd(SCP_BIN) IN
    /\ ShellCmdWithRetry(base.cmd \o RemotePath(dst_file) \o <<src_file>>,
                         {}, FALSE, factor)
    /\ entry' = [name |-> "ScpPushFile", builds |-> 1, base |-> base]

\* Ssh.ScpPushFile: timeout and show_output keep their defaults.
ScpPushFile(src_file, dst_file, factor) ==
    LET base == GetBaseCmd(SCP_BIN) IN
    /\ ShellCmdWithRetry(base.cmd \o <<src_file>> \o RemotePath(dst_file),
                         {}, FALSE, factor)
    /\ entry' = [name |-> "ScpPushFile", builds |-> 1, base |-> base]

\* Ssh.ScpPullFile
ScpPullFile(src_file, dst_file, factor) ==
    LET base == GetBaseCmd(SCP_BIN) IN
    /\ ShellCmdWithRetry(base.cmd \o RemotePath(src_file) \o <<dst_file>>,
                         {}, FALSE, factor)
    /\ entry' = [name |-> "ScpPullFile", builds |-> 1, base |-> base]

\* GetBaseCmd whose UnknownType is handed to the retry engine as a failure
\* of a first attempt.
BuildCommandRetried(execute_bin) ==
    LET base == GetBaseCmd(execute_bin) IN
    /\ pc = "idle"
    /\ entry' = [name |-> "GetBaseCmd", builds |-> 1, base |-> base]
    /\ IF base.ok
       THEN /\ result' = [kind |-> "ok", code |-> {}, exhausted |-> FALSE,
                          attempts |-> 0]
            /\ pc' = "done"
            /\ UNCHANGED <<op, retry, raised, create>>
       ELSE /\ op' = "ShellCmd"
            /\ retry' = [max_retries |-> ShellCmdMaxRetries,
                         sleep_multiplier |-> ShellCmdSleepMultiplier,
                         backoff |-> 1, attempt_count |-> 1]
            /\ raised' = [type |-> "DeviceConnectionError", code |-> {}]
            /\ result' = result
            /\ pc' = "handle"
    /\ UNCHANGED <<args, sleeps, procs, timers, pipe,
                   nwritten, output, console, debuglog, outcomes, wait,
                   ctor, ssh, create>>

\* Ssh.GetBaseCmd called by itself: it returns the command line or raises.
BuildCommand(execute_bin) ==
    LET base == GetBaseCmd(execute_bin) IN
    /\ pc = "idle"
    /\ entry' = [name |-> "GetBaseCmd", builds |-> 1, base |-> base]
    /\ result' = [kind |-> IF base.ok THEN "ok" ELSE base.err, code |-> {},
                  exhausted |-> FALSE, attempts |-> 0]
    /\ pc' = "done"
    /\ UNCHANGED <<op, args, retry, sleeps, raised, procs, timers, pipe,
                   nwritten, output, console, debuglog, outcomes, wait,
                   ctor, ssh, create>>

\* The method has returned or raised; the object is ready for the next call.
Return ==
    /\ pc = "done"
    /\ pc' = "idle"
    /\ op' = "none"
    /\ args' = [cmd |-> <<>>, timeout |-> {}, show_output |-> FALSE]
    /\ retry' = [max_retries |-> 0, sleep_multiplier |-> 0, backoff |-> 1,
                 attempt_count |-> 0]
    /\ sleeps' = <<>>
    /\ raised' = NoError
    /\ result' = NoResult
    /\ procs' = <<>>
    /\ timers' = <<>>
    /\ pipe' = <<>>
    /\ nwritten' = 0
    /\ output' = <<>>
    /\ console' = <<>>
    /\ debuglog' = <<>>
    /\ outcomes' = <<>>
    /\ wait' = [max_retry |-> 0, calls |-> 0, ret |-> {}]
    /\ entry' = NoEntry
    /\ UNCHANGED <<ctor, ssh, create>>

----------------------------------------------------------------------------
(* The retry engine (utils.RetryExceptionType), from spec.md section 4.5:  *)
(* invoke the operation; on a failure whose class is retryable and while   *)
(* attempts remain, sleep baseSleep * backoffFactor^(attempt-1) and retry; *)
(* otherwise propagate.  Exhausting the budget surfaces a failure marked   *)
(* "retries exhausted" that carries the attempt count.                     *)

AttemptsRemainOffByOne == retry.attempt_count <= retry.max_retries

AttemptsRemain == retry.attempt_count < retry.max_retries

\* the sleep taken after failed attempt number k
RetrySleepLinear(k) == retry.sleep_multiplier * retry.backoff * k

RetrySleep(k) == retry.sleep_multiplier * Pow(retry.backoff, k - 1)

PropagatedFailure(e) ==
    [kind |-> e.type, code |-> e.code, exhausted |-> FALSE,
     attempts |-> retry.attempt_count]

ExhaustedFailureRaw(e) == PropagatedFailure(e)

ExhaustedFailure(e) ==
    [kind |-> e.type, code |-> e.code, exhausted |-> TRUE,
     attempts |-> retry.attempt_count]

\* The engine calls the operation: one more attempt starts.
RetryInvoke ==
    /\ pc = "try"
    /\ retry' = [retry EXCEPT !.attempt_count = @ + 1]
    /\ pc' = IF op = "ShellCmd" THEN "popen" ELSE "generic"
    /\ UNCHANGED <<op, args, sleeps, raised, result, procs, timers, pipe,
                   nwritten, output, console, debuglog, outcomes, wait,
                   ctor, ssh, entry, create>>

\* The operation returned normally.
RetryReturn ==
    /\ pc = "handle"
    /\ raised = NoError
    /\ result' = [kind |-> "ok", code |-> {}, exhausted |-> FALSE,
                  attempts |-> retry.attempt_count]
    /\ pc' = "done"
    /\ UNCHANGED <<op, args, retry, sleeps, raised, procs, timers, pipe,
                   nwritten, output, console, debuglog, outcomes, wait,
                   ctor, ssh, entry, create>>

\* A retryable failure with attempts left: sleep, then go round again.
RetrySleepAndRetry ==
    /\ pc = "handle"
    /\ raised # NoError
    /\ raised.type \in RetryableTypes
    /\ AttemptsRemain
    /\ sleeps' = Append(sleeps, RetrySleep(retry.attempt_count))
    /\ raised' = NoError
    /\ pc' = "try"
    /\ UNCHANGED <<op, args, retry, result, procs, timers, pipe, nwritten,
                   output, console, debuglog, outcomes, wait,
                   ctor, ssh, entry, create>>

\* The sleep taken before the budget is looked at.
RetryExhaustedAfterSleep ==
    /\ pc = "handle"
    /\ raised # NoError
    /\ raised.type \in RetryableTypes
    /\ ~AttemptsRemain
    /\ sleeps' = Append(sleeps, RetrySleep(retry.attempt_count))
    /\ result' = ExhaustedFailure(raised)
    /\ pc' = "done"
    /\ UNCHANGED <<op, args, retry, raised, procs, timers, pipe,
                   nwritten, output, console, debuglog, outcomes, wait,
                   ctor, ssh, entry, create>>

\* A retryable failure on the last attempt of the budget.
RetryExhausted ==
    /\ pc = "handle"
    /\ raised # NoError
    /\ raised.type \in RetryableTypes
    /\ ~AttemptsRemain
    /\ result' = ExhaustedFailure(raised)
    /\ pc' = "done"
    /\ UNCHANGED <<op, args, retry, sleeps, raised, procs, timers, pipe,
                   nwritten, output, console, debuglog, outcomes, wait,
                   ctor, ssh, entry, create>>

\* A failure outside the retryable classes propagates on first occurrence.
RetryPropagate ==
    /\ pc = "handle"
    /\ raised # NoError
    /\ raised.type \notin RetryableTypes
    /\ result' = PropagatedFailure(raised)
    /\ pc' = "done"
    /\ UNCHANGED <<op, args, retry, sleeps, raised, procs, timers, pipe,
                   nwritten, output, console, debuglog, outcomes, wait,
                   ctor, ssh, entry, create>>

----------------------------------------------------------------------------
(* _SshLogOutput, statement by statement *)

PopenReusesProcess ==
    /\ pc = "popen"
    /\ IF procs = <<>>
       THEN /\ procs' = <<[st |-> "running", status |-> {},
                           returncode |-> {}, killer |-> 0,
                           wopen |-> TRUE, closed |-> FALSE]>>
            /\ timers' = <<NoTimer>>
       ELSE UNCHANGED <<procs, timers, create>>
    /\ pipe' = <<>>
    /\ nwritten' = 0
    /\ output' = <<>>
    /\ console' = <<>>
    /\ debuglog' = <<>>
    /\ pc' = "timer_start"
    /\ UNCHANGED <<op, args, retry, sleeps, raised, result, outcomes, wait,
                   ctor, ssh, entry, create>>

\* line 83: subprocess.Popen.
Popen ==
    /\ pc = "popen"
    /\ procs' = Append(procs, [st |-> "running", status |-> {},
                               returncode |-> {}, killer |-> 0,
                               wopen |-> TRUE, closed |-> FALSE])
    /\ timers' = Append(timers, NoTimer)
    /\ pipe' = <<>>
    /\ nwritten' = 0
    /\ output' = <<>>
    /\ console' = <<>>
    /\ debuglog' = <<>>
    /\ pc' = "timer_start"
    /\ UNCHANGED <<op, args, retry, sleeps, raised, result, outcomes, wait,
                   ctor, ssh, entry, create>>

\* lines 85-88 without timer.start().
TimerStartForgotten ==
    /\ pc = "timer_start"
    /\ pc' = "readline"
    /\ UNCHANGED <<op, args, retry, sleeps, raised, result, procs, timers,
                   pipe, nwritten, output, console, debuglog, outcomes, wait,
                   ctor, ssh, entry, create>>

\* lines 85-88: if timeout: timer = Timer(timeout, process.kill); timer.start()
TimerStart ==
    /\ pc = "timer_start"
    /\ timers' = IF Truthy(args.timeout)
                 THEN [timers EXCEPT ![cur].st = "waiting"]
                 ELSE timers
    /\ pc' = "readline"
    /\ UNCHANGED <<op, args, retry, sleeps, raised, result, procs, pipe,
                   nwritten, output, console, debuglog, outcomes, wait,
                   ctor, ssh, entry, create>>

\* A read that raises on a pipe whose writer is gone instead of giving "".
ReadlineRaisesAtEof ==
    /\ pc = "readline"
    /\ \/ /\ pipe # <<>>
          /\ output' = <<Head(pipe)>>
          /\ pipe' = Tail(pipe)
          /\ pc' = "check"
          /\ raised' = raised
       \/ /\ pipe = <<>>
          /\ ~procs[cur].wopen
          /\ output' = <<>>
          /\ pipe' = pipe
          /\ pc' = "handle"
          /\ raised' = [type |-> "ValueError", code |-> {}]
    /\ UNCHANGED <<op, args, retry, sleeps, result, procs, timers,
                   nwritten, console, debuglog, outcomes, wait,
                   ctor, ssh, entry, create>>

\* line 90: output = process.stdout.readline().  The call blocks until a
\* line is buffered or the write end of the pipe is closed (then "").
Readline ==
    /\ pc = "readline"
    /\ \/ /\ pipe # <<>>
          /\ output' = <<Head(pipe)>>
          /\ pipe' = Tail(pipe)
       \/ /\ pipe = <<>>
          /\ ~procs[cur].wopen
          /\ output' = <<>>
          /\ pipe' = pipe
    /\ pc' = "check"
    /\ UNCHANGED <<op, args, retry, sleeps, raised, result, procs, timers,
                   nwritten, console, debuglog, outcomes, wait,
                   ctor, ssh, entry, create>>

\* line 92 without its poll() conjunct: the loop ends on the first empty read.
PollBreakOnEmpty ==
    /\ pc = "check"
    /\ output = <<>>
    /\ procs' = [procs EXCEPT
                   ![cur].st = IF @ = "zombie" THEN "reaped" ELSE @,
                   ![cur].returncode = procs[cur].status]
    /\ pc' = "timer_cancel"
    /\ UNCHANGED <<op, args, retry, sleeps, raised, result, timers, pipe,
                   nwritten, output, console, debuglog, outcomes, wait,
                   ctor, ssh, entry, create>>

\* line 92: output == "" and process.poll() is not None -> break.
\* poll() reaps the child when it has terminated and sets returncode.
PollBreak ==
    /\ pc = "check"
    /\ output = <<>>
    /\ procs[cur].st = "zombie"
    /\ procs' = [procs EXCEPT ![cur].st = "reaped",
                              ![cur].returncode = procs[cur].status]
    /\ pc' = "timer_cancel"
    /\ UNCHANGED <<op, args, retry, sleeps, raised, result, timers, pipe,
                   nwritten, output, console, debuglog, outcomes, wait,
                   ctor, ssh, entry, create>>

\* line 92 with the child still running: poll() is None, and line 94 finds
\* output empty: back to readline.
PollRunning ==
    /\ pc = "check"
    /\ output = <<>>
    /\ procs[cur].st = "running"
    /\ pc' = "readline"
    /\ UNCHANGED <<op, args, retry, sleeps, raised, result, procs, timers,
                   pipe, nwritten, output, console, debuglog, outcomes, wait,
                   ctor, ssh, entry, create>>

\* lines 94-99 with the else branch run for every line.
LogOutputAlwaysDebug ==
    /\ pc = "check"
    /\ output # <<>>
    /\ console' = IF args.show_output THEN console \o output ELSE console
    /\ debuglog' = debuglog \o output
    /\ pc' = "readline"
    /\ UNCHANGED <<op, args, retry, sleeps, raised, result, procs, timers,
                   pipe, nwritten, output, outcomes, wait,
                   ctor, ssh, entry, create>>

\* lines 94-99: a line was read: print it or send it to logger.debug.
LogOutput ==
    /\ pc = "check"
    /\ output # <<>>
    /\ IF args.show_output
       THEN /\ console' = console \o output
            /\ debuglog' = debuglog
       ELSE /\ debuglog' = debuglog \o output
            /\ console' = console
    /\ pc' = "readline"
    /\ UNCHANGED <<op, args, retry, sleeps, raised, result, procs, timers,
                   pipe, nwritten, output, outcomes, wait,
                   ctor, ssh, entry, create>>

\* lines 100-101 left out: the timer is never cancelled.
TimerCancelForgotten ==
    /\ pc = "timer_cancel"
    /\ pc' = "close"
    /\ UNCHANGED <<op, args, retry, sleeps, raised, result, procs, timers,
                   pipe, nwritten, output, console, debuglog, outcomes, wait,
                   ctor, ssh, entry, create>>

\* lines 100-101: if timeout: timer.cancel().  cancel() sets the timer's
\* finished event; a timer still waiting then ends without calling kill.
TimerCancel ==
    /\ pc = "timer_cancel"
    /\ timers' = IF Truthy(args.timeout)
                 THEN [timers EXCEPT
                         ![cur].finished = TRUE,
                         ![cur].st = IF @ = "waiting" THEN "cancelled" ELSE @]
                 ELSE timers
    /\ pc' = "close"
    /\ UNCHANGED <<op, args, retry, sleeps, raised, result, procs, pipe,
                   nwritten, output, console, debuglog, outcomes, wait,
                   ctor, ssh, entry, create>>

\* line 102: process.stdout.close()
StdoutClose ==
    /\ pc = "close"
    /\ procs' = [procs EXCEPT ![cur].closed = TRUE]
    /\ pc' = "classify"
    /\ UNCHANGED <<op, args, retry, sleeps, raised, result, timers, pipe,
                   nwritten, output, console, debuglog, outcomes, wait,
                   ctor, ssh, entry, create>>

\* lines 103-107: raise by returncode, or return.
RaiseByReturncode ==
    /\ pc = "classify"
    /\ raised' = Classify(procs[cur].returncode)
    /\ outcomes' = Append(outcomes, [cmd |-> args.cmd,
                                     rc |-> procs[cur].returncode,
                                     err |-> raised'])
    /\ pc' = "handle"
    /\ UNCHANGED <<op, args, retry, sleeps, result, procs, timers, pipe,
                   nwritten, output, console, debuglog, wait,
                   ctor, ssh, entry, create>>

----------------------------------------------------------------------------
(* _SshCall, statement by statement *)

\* lines 48-49: subprocess.Popen
CallPopen ==
    /\ pc = "call_popen"
    /\ procs' = Append(procs, [st |-> "running", status |-> {},
                               returncode |-> {}, killer |-> 0,
                               wopen |-> TRUE, closed |-> FALSE])
    /\ timers' = Append(timers, NoTimer)
    /\ pipe' = <<>>
    /\ nwritten' = 0
    /\ output' = <<>>
    /\ console' = <<>>
    /\ debuglog' = <<>>
    /\ pc' = "call_timer_start"
    /\ UNCHANGED <<op, args, retry, sleeps, raised, result, outcomes, wait,
                   ctor, ssh, entry, create>>

\* lines 50-53: if timeout: timer = Timer(timeout, process.kill); timer.start()
CallTimerStart ==
    /\ pc = "call_timer_start"
    /\ timers' = IF Truthy(args.timeout)
                 THEN [timers EXCEPT ![cur].st = "waiting"]
                 ELSE timers
    /\ pc' = "call_poll"
    /\ UNCHANGED <<op, args, retry, sleeps, raised, result, procs, pipe,
                   nwritten, output, console, debuglog, outcomes, wait,
                   ctor, ssh, entry, create>>

\* lines 54-56: process.poll() is not None -> break
CallPollBreak ==
    /\ pc = "call_poll"
    /\ procs[cur].st = "zombie"
    /\ procs' = [procs EXCEPT ![cur].st = "reaped",
                              ![cur].returncode = procs[cur].status]
    /\ pc' = "call_timer_cancel"
    /\ UNCHANGED <<op, args, retry, sleeps, raised, result, timers, pipe,
                   nwritten, output, console, debuglog, outcomes, wait,
                   ctor, ssh, entry, create>>

\* lines 54-55 with the child still running: the loop spins.
CallPollRunning ==
    /\ pc = "call_poll"
    /\ procs[cur].st = "running"
    /\ UNCHANGED vars

\* lines 57-58: if timeout: timer.cancel()
CallTimerCancel ==
    /\ pc = "call_timer_cancel"
    /\ timers' = IF Truthy(args.timeout)
                 THEN [timers EXCEPT
                         ![cur].finished = TRUE,
                         ![cur].st = IF @ = "waiting" THEN "cancelled" ELSE @]
                 ELSE timers
    /\ pc' = "call_close"
    /\ UNCHANGED <<op, args, retry, sleeps, raised, result, procs, pipe,
                   nwritten, output, console, debuglog, outcomes, wait,
                   ctor, ssh, entry, create>>

\* lines 59-60 followed by the raise of lines 103-107.
CallReturnRaises ==
    /\ pc = "call_close"
    /\ procs' = [procs EXCEPT ![cur].closed = TRUE]
    /\ wait' = [wait EXCEPT !.ret = procs[cur].returncode]
    /\ outcomes' = Append(outcomes, [cmd |-> args.cmd,
                                     rc |-> procs[cur].returncode,
                                     err |-> NoError])
    /\ IF procs[cur].returncode \in {{0}, {255}}
       THEN /\ pc' = "wait_check"
            /\ result' = result
       ELSE /\ pc' = "done"
            /\ result' = [kind |-> "CalledProcessError",
                          code |-> procs[cur].returncode,
                          exhausted |-> FALSE, attempts |-> wait.calls]
    /\ UNCHANGED <<op, args, retry, sleeps, raised, timers, pipe,
                   nwritten, output, console, debuglog,
                   ctor, ssh, entry, create>>

\* lines 59-60: process.stdout.close(); return process.returncode
CallReturn ==
    /\ pc = "call_close"
    /\ procs' = [procs EXCEPT ![cur].closed = TRUE]
    /\ wait' = [wait EXCEPT !.ret = procs[cur].returncode]
    /\ outcomes' = Append(outcomes, [cmd |-> args.cmd,
                                     rc |-> procs[cur].returncode,
                                     err |-> NoError])
    /\ pc' = "wait_check"
    /\ UNCHANGED <<op, args, retry, sleeps, raised, result, timers, pipe,
                   nwritten, output, console, debuglog,
                   ctor, ssh, entry, create>>

----------------------------------------------------------------------------
(* Ssh.WaitForSsh *)

\* lines 230-231: the probe command; the loop has made no call yet.
WaitForSsh(timeout, max_retry) ==
    LET base == GetBaseCmd(SSH_BIN) IN
    /\ pc = "idle"
    /\ op' = "WaitForSsh"
    /\ args' = [cmd |-> base.cmd \o <<"uptime">>, timeout |-> timeout,
                show_output |-> FALSE]
    /\ wait' = [max_retry |-> max_retry, calls |-> 0, ret |-> {}]
    /\ entry' = [name |-> "WaitForSsh", builds |-> 1, base |-> base]
    /\ pc' = "wait_loop"
    /\ UNCHANGED <<retry, sleeps, raised, result, procs, timers, pipe,
                   nwritten, output, console, debuglog, outcomes,
                   ctor, ssh, create>>

WaitNextCallOffByOne ==
    /\ pc = "wait_loop"
    /\ wait.calls <= wait.max_retry
    /\ wait' = [wait EXCEPT !.calls = @ + 1]
    /\ pc' = "call_popen"
    /\ UNCHANGED <<op, args, retry, sleeps, raised, result, procs, timers,
                   pipe, nwritten, output, console, debuglog, outcomes,
                   ctor, ssh, entry, create>>

\* line 232-233: the next iteration of range(max_retry) calls _SshCall.
WaitNextCall ==
    /\ pc = "wait_loop"
    /\ wait.calls < wait.max_retry
    /\ wait' = [wait EXCEPT !.calls = @ + 1]
    /\ pc' = "call_popen"
    /\ UNCHANGED <<op, args, retry, sleeps, raised, result, procs, timers,
                   pipe, nwritten, output, console, debuglog, outcomes,
                   ctor, ssh, entry, create>>

WaitCheckIgnoresResult ==
    /\ pc = "wait_check"
    /\ pc' = "wait_loop"
    /\ UNCHANGED <<op, args, retry, sleeps, raised, result, procs, timers,
                   pipe, nwritten, output, console, debuglog, outcomes, wait,
                   ctor, ssh, entry, create>>

\* lines 233-234: _SshCall(...) == 0 -> return; otherwise go round again.
WaitCheck ==
    /\ pc = "wait_check"
    /\ IF wait.ret = {0}
       THEN /\ result' = [kind |-> "ok", code |-> {}, exhausted |-> FALSE,
                          attempts |-> wait.calls]
            /\ pc' = "done"
       ELSE /\ result' = result
            /\ pc' = "wait_loop"
    /\ UNCHANGED <<op, args, retry, sleeps, raised, procs, timers, pipe,
                   nwritten, output, console, debuglog, outcomes, wait,
                   ctor, ssh, entry, create>>

\* lines 235-236: the range is used up: raise DeviceConnectionError.
WaitRaise ==
    /\ pc = "wait_loop"
    /\ wait.calls >= wait.max_retry
    /\ result' = [kind |-> "DeviceConnectionError", code |-> {},
                  exhausted |-> FALSE, attempts |-> wait.calls]
    /\ pc' = "done"
    /\ UNCHANGED <<op, args, retry, sleeps, raised, procs, timers, pipe,
                   nwritten, output, console, debuglog, outcomes, wait,
                   ctor, ssh, entry, create>>

----------------------------------------------------------------------------
(* The child process *)

\* The child writes one more line to its combined stdout/stderr.
ProcWrite ==
    /\ procs # <<>>
    /\ procs[cur].st = "running"
    /\ procs[cur].wopen
    /\ nwritten < MaxLines
    /\ nwritten' = nwritten + 1
    /\ pipe' = Append(pipe, nwritten + 1)
    /\ UNCHANGED <<pc, op, args, retry, sleeps, raised, result, procs,
                   timers, output, console, debuglog, outcomes, wait,
                   ctor, ssh, entry, create>>

\* The child closes its output while it goes on running.
ProcCloseStdout ==
    /\ procs # <<>>
    /\ procs[cur].st = "running"
    /\ procs[cur].wopen
    /\ procs' = [procs EXCEPT ![cur].wopen = FALSE]
    /\ UNCHANGED <<pc, op, args, retry, sleeps, raised, result, timers,
                   pipe, nwritten, output, console, debuglog, outcomes, wait,
                   ctor, ssh, entry, create>>

\* The child exits by itself with exit code c.
ProcExit(c) ==
    /\ procs # <<>>
    /\ procs[cur].st = "running"
    /\ procs' = [procs EXCEPT ![cur].st = "zombie",
                              ![cur].status = {c},
                              ![cur].wopen = FALSE]
    /\ UNCHANGED <<pc, op, args, retry, sleeps, raised, result, timers,
                   pipe, nwritten, output, console, debuglog, outcomes, wait,
                   ctor, ssh, entry, create>>

----------------------------------------------------------------------------
(* The timer thread of process i (threading.Timer.run) *)

\* The interval has passed and finished is not set: the thread goes on to
\* call its function.
TimerExpire(i) ==
    /\ timers[i].st = "waiting"
    /\ ~timers[i].finished
    /\ timers' = [timers EXCEPT ![i].st = "firing"]
    /\ UNCHANGED <<pc, op, args, retry, sleeps, raised, result, procs,
                   pipe, nwritten, output, console, debuglog, outcomes, wait,
                   ctor, ssh, entry, create>>

\* The processes os.kill(self.pid, SIGKILL) of process i can reach.  While
\* process i is running it is the target.  A zombie ignores the signal.
\* Once poll() has reaped process i its pid is free: os.kill then fails
\* inside the timer thread (victim 0), or the kernel has given the pid to a
\* process spawned later and the signal lands there.
Victims(i) ==
    IF procs[i].st = "running" THEN {i}
    ELSE IF procs[i].st = "zombie" THEN {0}
    ELSE {0} \cup {j \in (i + 1)..Len(procs) : procs[j].st = "running"}

KillStatus == {0 - SIGKILL}

\* process.kill() of process i, called by its timer thread.
TimerKill(i) ==
    /\ timers[i].st = "firing"
    /\ timers' = [timers EXCEPT ![i].st = "done"]
    /\ \E v \in Victims(i) :
          procs' = [j \in 1..Len(procs) |->
                      IF j = v
                      THEN [procs[j] EXCEPT !.st = "zombie",
                                            !.status = KillStatus,
                                            !.killer = i,
                                            !.wopen = FALSE]
                      ELSE procs[j]]
    /\ UNCHANGED <<pc, op, args, retry, sleeps, raised, result, pipe,
                   nwritten, output, console, debuglog, outcomes, wait,
                   ctor, ssh, entry, create>>

----------------------------------------------------------------------------
(* The generic engine run on an abstract operation *)

RunWithRetry(n, base, factor) ==
    /\ pc = "idle"
    /\ op' = "Generic"
    /\ retry' = [max_retries |-> n, sleep_multiplier |-> base,
                 backoff |-> factor, attempt_count |-> 0]
    /\ pc' = "try"
    /\ UNCHANGED <<args, sleeps, raised, result, procs, timers, pipe,
                   nwritten, output, console, debuglog, outcomes, wait,
                   ctor, ssh, entry, create>>

GenericOutcomes ==
    {NoError,
     [type |-> "GenericRetryable", code |-> {}],
     [type |-> "GenericFatal", code |-> {}]}

\* One attempt of the abstract operation: it returns, or raises a
\* retryable or a non-retryable failure.
GenericOperation(e) ==
    /\ pc = "generic"
    /\ raised' = e
    /\ outcomes' = Append(outcomes, [cmd |-> <<>>, rc |-> {}, err |-> e])
    /\ pc' = "handle"
    /\ UNCHANGED <<op, args, retry, sleeps, result, procs, timers, pipe,
                   nwritten, output, console, debuglog, wait,
                   ctor, ssh, entry, create>>

----------------------------------------------------------------------------
Engine ==
    \/ RetryInvoke
    \/ RetryReturn
    \/ RetrySleepAndRetry
    \/ RetryExhausted
    \/ RetryPropagate

SshLogOutput ==
    \/ Popen
    \/ TimerStart
    \/ Readline
    \/ PollBreak
    \/ PollRunning
    \/ LogOutput
    \/ TimerCancel
    \/ StdoutClose
    \/ RaiseByReturncode

Child ==
    \/ ProcWrite
    \/ ProcCloseStdout
    \/ \E c \in ExitCodes : ProcExit(c)

SshCall ==
    \/ CallPopen
    \/ CallTimerStart
    \/ CallPollBreak
    \/ CallPollRunning
    \/ CallTimerCancel
    \/ CallReturn

WaitLoop ==
    \/ WaitNextCall
    \/ WaitCheck
    \/ WaitRaise

TimerThread ==
    \/ \E i \in 1..Len(timers) : TimerExpire(i)
    \/ \E i \in 1..Len(timers) : TimerKill(i)

Next ==
    \/ \E cmd \in Cmds, t \in Timeouts, so \in BOOLEAN,
          f \in DEFAULT_RETRY_BACKOFF_FACTORS :
            ShellCmd(cmd, t, so, f)
    \/ \E t \in Timeouts, n \in WaitMaxRetries : WaitForSsh(t, n)
    \/ Engine
    \/ SshLogOutput
    \/ SshCall
    \/ WaitLoop
    \/ Child
    \/ TimerThread

Spec == Init /\ [][Next]_vars

NextRetry ==
    \/ Next
    \/ \E n \in 1..MaxRetries, b \in GenericSleepMultipliers,
          f \in GenericBackoffFactors : RunWithRetry(n, b, f)
    \/ \E e \in GenericOutcomes : GenericOperation(e)

SpecRetry == Init /\ [][NextRetry]_vars

\* Calls with a timeout set, under fair scheduling of the main thread and
\* of the timer threads.  A child process is under no obligation: it may
\* run for ever.  The command text has no part in whether a call ends, so
\* one is taken.
PositiveTimeouts == {t \in Timeouts : Truthy(t)}

NextFair ==
    \/ \E t \in PositiveTimeouts, so \in BOOLEAN,
          f \in DEFAULT_RETRY_BACKOFF_FACTORS :
            ShellCmd(<<"ssh", "uptime">>, t, so, f)
    \/ \E t \in PositiveTimeouts, n \in 0..MaxProbes : WaitForSsh(t, n)
    \/ Engine
    \/ SshLogOutput
    \/ SshCall
    \/ WaitLoop
    \/ Child
    \/ TimerThread

MainThread == Engine \/ SshLogOutput \/ SshCall \/ WaitLoop

SpecFair ==
    /\ Init
    /\ [][NextFair]_vars
    /\ WF_vars(MainThread)
    /\ WF_vars(TimerThread)

----------------------------------------------------------------------------
(* create.Run *)

sshvars == <<pc, op, args, retry, sleeps, raised, result, procs, timers,
             pipe, nwritten, output, console, debuglog, outcomes, wait,
             ctor, ssh, entry>>

\* line 86: _CheckForAutoconnect is entered with args.autoconnect and with
\* adb found on the host or not; it returns at once when autoconnect is off
\* or adb is there.
CheckForAutoconnect(autoconnect, adb) ==
    /\ create.pc = "idle"
    /\ create' = [create EXCEPT
                    !.entry_autoconnect = autoconnect,
                    !.autoconnect = autoconnect,
                    !.adb = adb,
                    !.pc = IF ~autoconnect \/ adb THEN "checked" ELSE "ask"]
    /\ UNCHANGED sshvars

\* lines 89-94 and 113-114: the user is asked; yes says whether the answer
\* is in constants.USER_ANSWER_YES.
InteractWithQuestion(yes) ==
    /\ create.pc = "ask"
    /\ create' = [create EXCEPT
                    !.answer = {yes},
                    !.disable_autoconnect = ~yes,
                    !.pc = IF yes THEN "environ" ELSE "finish"]
    /\ UNCHANGED sshvars

\* lines 96-101: ANDROID_BUILD_TOP is looked up.
GetAndroidBuildTop(android_build_top) ==
    /\ create.pc = "environ"
    /\ create' = [create EXCEPT
                    !.android_build_top = android_build_top,
                    !.disable_autoconnect = ~StrTruthy(android_build_top),
                    !.pc = IF StrTruthy(android_build_top) THEN "build"
                           ELSE "finish"]
    /\ UNCHANGED sshvars

BuildAdbFailureIgnored(outcome) ==
    /\ create.pc = "build"
    /\ create' = [create EXCEPT
                    !.build = outcome,
                    !.error = IF outcome = "OSError" THEN "OSError" ELSE @,
                    !.pc = IF outcome = "OSError" THEN "raised"
                           ELSE "finish"]
    /\ UNCHANGED sshvars

\* lines 103-112: adb is built; only CalledProcessError is caught.
BuildAdb(outcome) ==
    /\ create.pc = "build"
    /\ create' = [create EXCEPT
                    !.build = outcome,
                    !.disable_autoconnect = (outcome = "CalledProcessError"),
                    !.error = IF outcome = "OSError" THEN "OSError" ELSE @,
                    !.pc = IF outcome = "OSError" THEN "raised"
                           ELSE "finish"]
    /\ UNCHANGED sshvars

\* lines 116-119: if disable_autoconnect: args.autoconnect = False
FinishAutoconnect ==
    /\ create.pc = "finish"
    /\ create' = [create EXCEPT
                    !.autoconnect = IF create.disable_autoconnect THEN FALSE
                                    ELSE @,
                    !.pc = "checked"]
    /\ UNCHANGED sshvars

\* create.Run, lines 181-182: the creator class for the AVD spec.
ChooseCreatorClass(instance_type, image_source) ==
    LET r == GetAvdCreatorClass(instance_type, image_source) IN
    /\ create.pc = "checked"
    /\ create' = [create EXCEPT
                    !.instance_type = instance_type,
                    !.image_source = image_source,
                    !.creator = r.creator,
                    !.error = r.error,
                    !.pc = IF r.error = "none" THEN "created" ELSE "raised"]
    /\ UNCHANGED sshvars

NextCreate ==
    \/ \E a \in BOOLEAN, adb \in BOOLEAN : CheckForAutoconnect(a, adb)
    \/ \E yes \in BOOLEAN : InteractWithQuestion(yes)
    \/ \E top \in BuildTops : GetAndroidBuildTop(top)
    \/ \E o \in BuildOutcomes : BuildAdb(o)
    \/ FinishAutoconnect
    \/ \E it \in InstanceTypes, is \in ImageSources :
          ChooseCreatorClass(it, is)

SpecCreate == Init /\ [][NextCreate]_vars

\* The methods of an Ssh object, called one after another on objects
\* constructed in every way; no call sets a timeout.
NextSession ==
    \/ \E c \in TargetCommands, so \in BOOLEAN,
          f \in DEFAULT_RETRY_BACKOFF_FACTORS : Run(c, {}, so, f)
    \/ \E src \in LocalFiles, dst \in RemoteFiles,
          f \in DEFAULT_RETRY_BACKOFF_FACTORS : ScpPushFile(src, dst, f)
    \/ \E src \in RemoteFiles, dst \in LocalFiles,
          f \in DEFAULT_RETRY_BACKOFF_FACTORS : ScpPullFile(src, dst, f)
    \/ \E n \in WaitMaxRetries : WaitForSsh({}, n)
    \/ \E b \in ExecuteBins : BuildCommand(b)
    \/ Return
    \/ Engine
    \/ SshLogOutput
    \/ SshCall
    \/ WaitLoop
    \/ Child

SpecSession == InitSession /\ [][NextSession]_vars

----------------------------------------------------------------------------
(* Properties *)

Attempts == 1..Len(outcomes)

DeviceConnectionError == [type |-> "DeviceConnectionError", code |-> {}]

CalledProcessError(rc) == [type |-> "CalledProcessError", code |-> rc]

\* Every finished attempt failed with a failure the engine may retry.
AllAttemptsRetryable ==
    /\ outcomes # <<>>
    /\ \A i \in Attempts : outcomes[i].err.type \in RetryableTypes

\* Process i was terminated by its own watchdog.
KilledByTimeout(i) == procs[i].killer = i

\* C1: the error _SshLogOutput raises is a function of the returncode
\* alone: 0 raises nothing, 255 raises DeviceConnectionError and any other
\* returncode c raises CalledProcessError carrying c, whatever the command.
C1_ClassificationByExitCode ==
    op = "ShellCmd" =>
      \A i \in Attempts :
        LET o == outcomes[i] IN
        /\ o.rc = {0} => o.err = NoError
        /\ o.rc = {255} => o.err = DeviceConnectionError
        /\ o.rc \notin {{0}, {255}} => o.err = CalledProcessError(o.rc)

C1_Witness ==
    /\ op = "ShellCmd"
    /\ args.cmd = <<"ssh", "reboot">>
    /\ Len(outcomes) = 2
    /\ outcomes[1].rc = {255} /\ outcomes[1].err = DeviceConnectionError
    /\ outcomes[2].rc = {2} /\ outcomes[2].err = CalledProcessError({2})

C3_ExactlyMaxRetriesAttempts ==
    /\ (AllAttemptsRetryable /\ op \in {"ShellCmd", "Generic"}) =>
          /\ Len(outcomes) <= retry.max_retries
          /\ pc = "done" =>
               /\ Len(outcomes) = retry.max_retries
               /\ retry.attempt_count = retry.max_retries
               /\ result.kind \notin {"ok", "none"}
    /\ (AllAttemptsRetryable /\ op = "ShellCmd" /\ pc = "done") =>
          /\ Len(procs) = 4
          /\ \A i \in 1..4 : procs[i].returncode = {255}
          /\ result.kind = "DeviceConnectionError"

C3_Witness ==
    /\ op = "ShellCmd"
    /\ pc = "done"
    /\ Len(outcomes) = 4
    /\ \A i \in Attempts : outcomes[i].rc = {255}
    /\ result.kind = "DeviceConnectionError"

\* C4: an attempt of ShellCmdWithRetry whose process was killed by its
\* watchdog is not reported as a command failure; it is retried, and when
\* every attempt was killed by its watchdog the caller gets
\* DeviceConnectionError after the whole budget was used.
C4_TimeoutIsRetried ==
    op = "ShellCmd" =>
      /\ \A i \in Attempts :
            KilledByTimeout(i) => outcomes[i].err.type # "CalledProcessError"
      /\ (pc = "done" /\ \A i \in Attempts : KilledByTimeout(i)) =>
            /\ result.kind = "DeviceConnectionError"
            /\ Len(outcomes) = retry.max_retries

C6_AttemptsBounded ==
    /\ retry.attempt_count <= retry.max_retries
    /\ op \in {"ShellCmd", "Generic"} => Len(outcomes) <= retry.attempt_count
    /\ op = "ShellCmd" => Len(procs) <= retry.attempt_count

C6_Witness ==
    /\ op = "Generic"
    /\ pc = "done"
    /\ retry.max_retries = 2
    /\ retry.attempt_count = 2
    /\ outcomes[1].err.type = "GenericRetryable"
    /\ outcomes[2].err.type = "GenericFatal"

C10_NoKillAfterExitObserved ==
    [][/\ \A i \in 1..Len(timers) :
            (timers[i].st = "firing" /\ timers'[i].st = "done") =>
               ~(procs[i].st = "reaped" /\ procs[i].killer = 0)
       /\ \A j \in 1..Len(procs') : procs'[j].killer \in {0, j}]_vars

----------------------------------------------------------------------------
\* C11: WaitForSsh stops at the first probe that returns 0.  A probe with
\* exit code 0 is the last call made: when it was call k, exactly k
\* processes were spawned, no call follows it, and WaitForSsh returns
\* normally after k calls, every earlier one having returned nonzero.
C11_StopsAtFirstSuccess ==
    op = "WaitForSsh" =>
        /\ \A i \in Attempts :
              outcomes[i].rc = {0} =>
                 /\ i = Len(outcomes)
                 /\ Len(procs) = i
                 /\ wait.calls = i
                 /\ i <= wait.max_retry
                 /\ pc \in {"wait_check", "done"}
                 /\ pc = "done" => /\ result.kind = "ok"
                                   /\ result.attempts = i
        /\ (pc = "done" /\ result.kind = "ok") =>
              /\ outcomes # <<>>
              /\ outcomes[Len(outcomes)].rc = {0}

\* Reachable on the third of four attempts: three calls, then the return.
C11_Witness ==
    /\ op = "WaitForSsh"
    /\ wait.max_retry = 4
    /\ pc = "done"
    /\ result.kind = "ok"
    /\ Len(procs) = 3
    /\ Len(outcomes) = 3
    /\ outcomes[1].rc # {0}
    /\ outcomes[2].rc # {0}
    /\ outcomes[3].rc = {0}

----------------------------------------------------------------------------
\* C12: WaitForSsh raises DeviceConnectionError exactly when none of its
\* max_retry probes returned 0, and then it has made exactly max_retry
\* calls.  Every probe runs the same command under the same timeout (a
\* watchdog for each probe, or for none), the retry engine is never entered
\* and nothing sleeps between probes.
C12_RaisesIffNoProbeSucceeded ==
    op = "WaitForSsh" =>
        /\ pc = "done" =>
              /\ result.kind \in {"ok", "DeviceConnectionError"}
              /\ result.kind = "DeviceConnectionError" <=>
                    \A i \in Attempts : outcomes[i].rc # {0}
              /\ result.kind = "DeviceConnectionError" =>
                    /\ Len(outcomes) = wait.max_retry
                    /\ Len(procs) = wait.max_retry
        /\ \A i \in Attempts :
              /\ outcomes[i].cmd = args.cmd
              /\ timers[i].st # "none" <=> Truthy(args.timeout)
        /\ sleeps = <<>>
        /\ retry.attempt_count = 0
        /\ raised = NoError
        /\ pc \notin {"try", "handle"}

C12_Witness ==
    /\ op = "WaitForSsh"
    /\ wait.max_retry = 4
    /\ args.timeout = {20}
    /\ pc = "done"
    /\ result.kind = "DeviceConnectionError"
    /\ Len(outcomes) = 4
    /\ \E i \in Attempts : outcomes[i].rc = {255}
    /\ \E i \in Attempts : KilledByTimeout(i)

----------------------------------------------------------------------------
(* Helpers of the properties about command lines *)

Words(cmd) == {cmd[i] : i \in 1..Len(cmd)}

\* The address the object reports, from the constructor's arguments.
EffectiveAddress ==
    Format(IF ctor.report_internal_ip THEN ctor.ip.internal
           ELSE ctor.ip.external)

\* The extra tunnel arguments as words: none when they are not set.
ExtraWords ==
    IF ctor.extra_args_ssh_tunnel \in {{}, {""}} THEN <<>>
    ELSE <<Format(ctor.extra_args_ssh_tunnel)>>

\* Identity file and the two host-key options, then the extra arguments.
CommonWords ==
    <<"-i", ctor.ssh_private_key_path, "-q", "-o",
      "UserKnownHostsFile=/dev/null", "-o", "StrictHostKeyChecking=no">>
        \o ExtraWords

LoginSuffix == <<"-l", ctor.gce_user, EffectiveAddress>>

EndsWith(cmd, suffix) ==
    /\ Len(cmd) >= Len(suffix)
    /\ SubSeq(cmd, Len(cmd) - Len(suffix) + 1, Len(cmd)) = suffix

\* C13: GetBaseCmd for ssh gives a command line that ends with the login
\* and address; for scp one without them; for any other kind it raises
\* UnknownType and gives no command line.  For ssh and scp the binary is
\* followed by the identity file option, the options that switch off
\* host-key checking and the known-hosts file, and then the extra tunnel
\* arguments when they are set.
C13_BuildCommand ==
    /\ \A b \in ExecuteBins :
          LET r == GetBaseCmd(b) IN
          /\ b = SSH_BIN =>
                /\ r.ok
                /\ EndsWith(r.cmd, LoginSuffix)
                /\ r.cmd = <<"/usr/bin/ssh">> \o CommonWords \o LoginSuffix
          /\ b = SCP_BIN =>
                /\ r.ok
                /\ ~EndsWith(r.cmd, LoginSuffix)
                /\ "-l" \notin Words(r.cmd)
                /\ r.cmd = <<"/usr/bin/scp">> \o CommonWords
          /\ b \notin {SSH_BIN, SCP_BIN} =>
                /\ ~r.ok
                /\ r.err = "UnknownType"
                /\ r.cmd = <<>>
    /\ (entry.name = "GetBaseCmd" /\ pc = "done") =>
          /\ \E b \in ExecuteBins : entry.base = GetBaseCmd(b)
          /\ result.kind = IF entry.base.ok THEN "ok" ELSE "UnknownType"
          /\ procs = <<>>

\* GetBaseCmd has returned the scp command line of an object that has extra
\* tunnel arguments.
C13_Witness ==
    /\ entry.name = "GetBaseCmd"
    /\ pc = "done"
    /\ result.kind = "ok"
    /\ ctor.extra_args_ssh_tunnel = {"-o ProxyCommand=nc"}
    /\ entry.base.cmd =
          <<"/usr/bin/scp", "-i", "~/.ssh/acloud_rsa", "-q", "-o",
            "UserKnownHostsFile=/dev/null", "-o", "StrictHostKeyChecking=no",
            "-o ProxyCommand=nc">>

----------------------------------------------------------------------------
\* C14: ScpPushFile and ScpPullFile run their command through
\* ShellCmdWithRetry like Run does: the same attempt budget, base sleep and
\* exception type; an attempt that exits 255 is retried with the backoff
\* sleep, any other nonzero exit code is raised at once as
\* CalledProcessError, and only exit code 0 is success.  ScpPushFile passes
\* the local path and then user@address:remote path, ScpPullFile
\* user@address:remote path and then the local path, with the object's
\* login user and effective address.
C14_FileCopyRetryPath ==
    entry.name \in {"ScpPushFile", "ScpPullFile"} =>
        /\ op = "ShellCmd"
        /\ \E l \in LocalFiles, r \in RemoteFiles :
              LET remote == <<ctor.gce_user, "@", EffectiveAddress, ":", r>>
              IN args.cmd = <<"/usr/bin/scp">> \o CommonWords
                              \o (IF entry.name = "ScpPushFile"
                                  THEN <<l>> \o remote
                                  ELSE remote \o <<l>>)
        /\ retry.max_retries = SSH_CMD_MAX_RETRY
        /\ retry.sleep_multiplier = SSH_CMD_RETRY_SLEEP
        /\ RetryableTypes = {"DeviceConnectionError"}
        /\ \A i \in Attempts :
              /\ outcomes[i].cmd = args.cmd
              /\ outcomes[i].err =
                    IF outcomes[i].rc = {0} THEN NoError
                    ELSE IF outcomes[i].rc = {255} THEN DeviceConnectionError
                    ELSE CalledProcessError(outcomes[i].rc)
              /\ i < Len(outcomes) => outcomes[i].rc = {255}
        /\ Len(outcomes) <= SSH_CMD_MAX_RETRY
        /\ \A k \in 1..Len(sleeps) :
              /\ k <= Len(outcomes)
              /\ outcomes[k].rc = {255}
              /\ sleeps[k] = SSH_CMD_RETRY_SLEEP * Pow(retry.backoff, k - 1)
        /\ pc = "done" =>
              LET last == outcomes[Len(outcomes)] IN
              /\ Len(sleeps) = Len(outcomes) - 1
              /\ result.kind = "ok" <=> last.rc = {0}
              /\ last.rc = {255} =>
                    /\ Len(outcomes) = SSH_CMD_MAX_RETRY
                    /\ result.kind = "DeviceConnectionError"
              /\ last.rc \notin {{0}, {255}} =>
                    /\ result.kind = "CalledProcessError"
                    /\ result.code = last.rc

\* A push whose first attempt exited 255 and whose second exited 1.
C14_Witness ==
    /\ entry.name = "ScpPushFile"
    /\ pc = "done"
    /\ Len(outcomes) = 2
    /\ outcomes[1].rc = {255}
    /\ outcomes[2].rc = {1}
    /\ result.kind = "CalledProcessError"
    /\ ctor.report_internal_ip
    /\ args.cmd[Len(args.cmd) - 2] = "10.0.0.2"

----------------------------------------------------------------------------
----------------------------------------------------------------------------
\* C16: the address of an Ssh object is chosen when it is constructed, the
\* internal one when report_internal_ip is set and the external one
\* otherwise, and whatever methods are called on the object afterwards
\* (Run, ScpPushFile, ScpPullFile, WaitForSsh, GetBaseCmd, returning or
\* raising), its address, login user, key path and extra arguments stay
\* what the constructor was given.
C16_SessionFixed ==
    ssh = [ip |-> IF ctor.report_internal_ip THEN ctor.ip.internal
                  ELSE ctor.ip.external,
           gce_user |-> ctor.gce_user,
           ssh_private_key_path |-> ctor.ssh_private_key_path,
           extra_args_ssh_tunnel |-> ctor.extra_args_ssh_tunnel]

\* A pull that ran out of attempts on an object that reports the internal
\* address, which differs from the external one.
C16_Witness ==
    /\ entry.name = "ScpPullFile"
    /\ pc = "done"
    /\ result.kind = "DeviceConnectionError"
    /\ Len(procs) = 4
    /\ ctor.report_internal_ip
    /\ ctor.ip.internal # ctor.ip.external
    /\ ssh.ip = {"10.0.0.2"}

----------------------------------------------------------------------------
\* The lines 1..n in the order they were written.
Lines(n) == [i \in 1..n |-> i]

\* The main thread is inside the while loop of _SshLogOutput.
InReadLoop == pc \in {"readline", "check"}

\* The main thread has left the loop of the current attempt.
PastReadLoop == pc \in {"timer_cancel", "close", "classify", "handle"}

\* C17: _SshLogOutput passes every line the process writes on exactly once
\* and in order, to the screen when show_output is set and to logger.debug
\* otherwise, never to both: at any moment the lines passed on, the line
\* just read and the lines still buffered are together the lines written.
\* The loop is left only after the process has exited and a read found
\* nothing more, and by then every line written has been passed on.
C17_EveryLineForwardedOnce ==
    (op = "ShellCmd" /\ procs # <<>>) =>
        LET sink == IF args.show_output THEN console ELSE debuglog
            other == IF args.show_output THEN debuglog ELSE console
            held == IF pc = "check" THEN output ELSE <<>>
        IN /\ other = <<>>
           /\ pc # "timer_start" => sink \o held \o pipe = Lines(nwritten)
           /\ ~(InReadLoop \/ pc = "timer_start") =>
                 /\ sink = Lines(nwritten)
                 /\ pipe = <<>>
                 /\ procs[cur].st = "reaped"
           /\ PastReadLoop => output = <<>>

\* Two lines are on the screen, in order, while the process is running.
C17_Witness ==
    /\ op = "ShellCmd"
    /\ args.show_output
    /\ procs # <<>>
    /\ procs[cur].st = "running"
    /\ console = <<1, 2>>
    /\ debuglog = <<>>

----------------------------------------------------------------------------
\* C18: when a watchdog has killed the process while the main thread is in
\* the reading loop, the loop goes on without an error: the pending
\* readline returns (a buffered line, or "" at end of output), an empty
\* read finds the process exited and leaves the loop, nothing is raised
\* inside the loop, and the attempt is then classified by its return code
\* like any other.
C18_KillEndsLoopCleanly ==
    (op = "ShellCmd" /\ procs # <<>> /\ procs[cur].killer # 0) =>
        /\ InReadLoop =>
              /\ raised = NoError
              /\ pc = "readline" => ENABLED Readline
              /\ (pc = "check" /\ output = <<>>) => ENABLED PollBreak
              /\ (pc = "check" /\ output # <<>>) => ENABLED LogOutput
        /\ pc = "handle" =>
              /\ Len(outcomes) = Len(procs)
              /\ outcomes[cur].rc = KillStatus
              /\ raised = CalledProcessError(KillStatus)
        /\ pc = "done" =>
              /\ result.kind = "CalledProcessError"
              /\ result.code = KillStatus

\* The process was killed by its watchdog while readline was waiting, and
\* the attempt has reached the classification.
C18_Witness ==
    /\ op = "ShellCmd"
    /\ procs # <<>>
    /\ KilledByTimeout(cur)
    /\ pc = "handle"
    /\ nwritten = 0
    /\ raised = CalledProcessError(KillStatus)

----------------------------------------------------------------------------
\* C19: the retry engine sleeps only between a failed attempt that may be
\* retried and the attempt that follows it: no sleep before the first
\* attempt, none after a success, none after a failure that is not
\* retried, none after the last attempt of a used-up budget.  When attempt
\* k succeeds the engine returns success after exactly k attempts and k - 1
\* sleeps, and no attempt follows.
C19_SleepsOnlyBetweenAttempts ==
    op \in {"ShellCmd", "Generic"} =>
        /\ Len(sleeps) = IF pc = "try" THEN retry.attempt_count
                         ELSE IF retry.attempt_count = 0 THEN 0
                         ELSE retry.attempt_count - 1
        /\ \A k \in 1..Len(sleeps) :
              /\ k <= Len(outcomes)
              /\ k < retry.max_retries
              /\ outcomes[k].err # NoError
              /\ outcomes[k].err.type \in RetryableTypes
        /\ \A i \in Attempts :
              outcomes[i].err = NoError =>
                 /\ i = Len(outcomes)
                 /\ retry.attempt_count = i
                 /\ Len(sleeps) = i - 1
                 /\ pc \in {"handle", "done"}
        /\ pc = "done" =>
              /\ retry.attempt_count = Len(outcomes)
              /\ Len(sleeps) = Len(outcomes) - 1
              /\ result.kind = "ok" <=>
                    outcomes[Len(outcomes)].err = NoError
              /\ result.kind = "ok" => result.attempts = Len(outcomes)

\* Success on the third attempt, after two sleeps.
C19_Witness ==
    /\ op = "ShellCmd"
    /\ pc = "done"
    /\ result.kind = "ok"
    /\ Len(outcomes) = 3
    /\ Len(sleeps) = 2
    /\ retry.attempt_count = 3

----------------------------------------------------------------------------
----------------------------------------------------------------------------
\* C21: an unknown kind is fatal and never retried.  When GetBaseCmd raises
\* UnknownType the caller has the failure at once: the retry engine has
\* made no attempt and taken no sleep, and no process was spawned.
C21_UnknownTypeNotRetried ==
    entry.base.err = "UnknownType" =>
        /\ pc = "done"
        /\ result.kind = "UnknownType"
        /\ ~result.exhausted
        /\ op = "none"
        /\ retry.attempt_count = 0
        /\ sleeps = <<>>
        /\ procs = <<>>
        /\ outcomes = <<>>

C21_Witness ==
    /\ entry.name = "GetBaseCmd"
    /\ entry.base.err = "UnknownType"
    /\ ~entry.base.ok
    /\ pc = "done"
    /\ result.kind = "UnknownType"

----------------------------------------------------------------------------
\* C22: WaitForSsh never raises a command error.  A probe that returns
\* 255, another nonzero code, or the -9 of a watchdog kill only uses up one
\* turn of the loop; the only thing WaitForSsh raises is
\* DeviceConnectionError, and with max_retry = 0 it raises it without
\* spawning a process.
C22_ProbeFailuresAllAlike ==
    op = "WaitForSsh" =>
        /\ result.kind \in {"none", "ok", "DeviceConnectionError"}
        /\ result.code = {}
        /\ raised = NoError
        /\ \A i \in Attempts : outcomes[i].err = NoError
        /\ Len(procs) <= wait.calls
        /\ wait.calls <= wait.max_retry
        /\ Len(outcomes) <= Len(procs)
        /\ Len(procs) <= Len(outcomes) + 1
        /\ \A i \in Attempts :
              (outcomes[i].rc # {0} /\ i < wait.max_retry) =>
                 \/ wait.calls > i
                 \/ pc \in {"wait_check", "wait_loop"}
        /\ (\E i \in Attempts : outcomes[i].rc # {0} /\ pc = "done") =>
              \/ result.kind = "ok"
              \/ Len(outcomes) = wait.max_retry
        /\ wait.max_retry = 0 =>
              /\ procs = <<>>
              /\ pc = "done" => result.kind = "DeviceConnectionError"

\* Four probes that ended with 255, with 1, with 2 and by the watchdog.
C22_Witness ==
    /\ op = "WaitForSsh"
    /\ pc = "done"
    /\ result.kind = "DeviceConnectionError"
    /\ Len(outcomes) = 4
    /\ \E i \in Attempts : outcomes[i].rc = {255}
    /\ \E i \in Attempts : outcomes[i].rc = {1}
    /\ \E i \in Attempts : outcomes[i].rc = KillStatus

----------------------------------------------------------------------------
\* C23: a call has a watchdog only when its timeout is a positive number.
\* With timeout None or 0 no timer is created for any process, no process
\* is killed by the runner, and an attempt ends only with an exit code of
\* the process's own; 0 does not mean "kill at once".  No process has more
\* than one timer.
C23_WatchdogOnlyWithTimeout ==
    op \in {"ShellCmd", "WaitForSsh"} =>
        /\ Len(timers) = Len(procs)
        /\ \A i \in 1..Len(procs) :
              timers[i].st # "none" => Truthy(args.timeout)
        /\ args.timeout \in {{}, {0}} =>
              /\ \A i \in 1..Len(procs) :
                    /\ timers[i] = NoTimer
                    /\ procs[i].killer = 0
                    /\ procs[i].status # KillStatus
                    /\ procs[i].st # "running" =>
                          \E c \in ExitCodes : procs[i].status = {c}
              /\ \A i \in Attempts :
                    \E c \in ExitCodes : outcomes[i].rc = {c}

\* A call with timeout 0 whose process has run, written and exited by
\* itself.
C23_Witness ==
    /\ op = "ShellCmd"
    /\ args.timeout = {0}
    /\ pc = "done"
    /\ nwritten = 2
    /\ timers[1] = NoTimer
    /\ outcomes[1].rc = {0}

----------------------------------------------------------------------------
\* C24: GetAvdCreatorClass decides on (instance_type, image_source).  Each
\* of the four pairs of local or remote instance and local or remote image
\* has a class of its own: remote instance with local image
\* LocalImageRemoteInstance, local with local LocalImageLocalInstance,
\* remote with remote RemoteImageRemoteInstance, local instance with remote
\* image RemoteImageLocalInstance.  Every other pair raises
\* UnsupportedInstanceImageType and returns no class.
C24_CreatorClassDispatch ==
    /\ \A it \in InstanceTypes, is \in ImageSources :
          LET r == GetAvdCreatorClass(it, is)
              known == /\ it \in {INSTANCE_TYPE_LOCAL, INSTANCE_TYPE_REMOTE}
                       /\ is \in {IMAGE_SRC_LOCAL, IMAGE_SRC_REMOTE}
          IN /\ known =>
                   /\ r.error = "none"
                   /\ r.creator =
                         IF it = "remote" /\ is = "local"
                         THEN {"LocalImageRemoteInstance"}
                         ELSE IF it = "local" /\ is = "local"
                         THEN {"LocalImageLocalInstance"}
                         ELSE IF it = "remote" /\ is = "remote"
                         THEN {"RemoteImageRemoteInstance"}
                         ELSE {"RemoteImageLocalInstance"}
                   /\ \A it2 \in InstanceTypes, is2 \in ImageSources :
                         GetAvdCreatorClass(it2, is2).creator = r.creator =>
                            (it2 = it /\ is2 = is)
             /\ ~known =>
                   /\ r.error = "UnsupportedInstanceImageType"
                   /\ r.creator = {}
    /\ create.pc = "created" =>
          /\ create.error = "none"
          /\ create.creator =
                GetAvdCreatorClass(create.instance_type,
                                   create.image_source).creator
          /\ create.creator # {}
    /\ (create.pc = "raised" /\ create.build # "OSError") =>
          /\ create.error = "UnsupportedInstanceImageType"
          /\ create.creator = {}
          /\ \/ create.instance_type \notin {"local", "remote"}
             \/ create.image_source \notin {"local", "remote"}

\* A local instance from a remote image.
C24_Witness ==
    /\ create.pc = "created"
    /\ create.instance_type = "local"
    /\ create.image_source = "remote"
    /\ create.creator = {"RemoteImageLocalInstance"}

----------------------------------------------------------------------------
\* C25: once _CheckForAutoconnect has returned, args.autoconnect is set
\* exactly when it was set on entry and either adb was found, or the user
\* said yes to building it, ANDROID_BUILD_TOP was set and the build went
\* through.  When the user declines, outside a lunch'd environment and
\* when the build fails it is off, and the check never sets an autoconnect
\* that was off on entry.
C25_AutoconnectAfterCheck ==
    /\ create.autoconnect => create.entry_autoconnect
    /\ (\/ create.pc \in {"checked", "created"}
        \/ (create.pc = "raised" /\ create.build # "OSError")) =>
          (create.autoconnect <=>
              /\ create.entry_autoconnect
              /\ \/ create.adb
                 \/ /\ create.answer = {TRUE}
                    /\ create.android_build_top \notin {{}, {""}}
                    /\ create.build = "ok")

\* Autoconnect survives because adb was built.
C25_Witness ==
    /\ create.pc = "checked"
    /\ create.entry_autoconnect
    /\ ~create.adb
    /\ create.answer = {TRUE}
    /\ create.build = "ok"
    /\ create.autoconnect

====
